---------------------------- MODULE Spec2Model ----------------------------
(***************************************************************************)
(* Model of frame.py, the project scaffolding script of WebFrame.          *)
(*                                                                         *)
(* The script is a straight line of os.makedirs, os.chdir, create_file,    *)
(* run_command and print statements.  The model keeps the filesystem (the  *)
(* directories and the files with their content), the working directory    *)
(* of the process, the program counter, what the process printed and which *)
(* external commands it invoked, where, and with which exit status.        *)
(*                                                                         *)
(* Paths are sequences of components.  <<>> is the directory the script    *)
(* is launched from; every absolute path of the model is relative to it.   *)
(* A file's content is a sequence of chunks: <<>> is the empty file, and   *)
(* writing in append mode would concatenate.                               *)
(***************************************************************************)
EXTENDS Integers, Sequences, FiniteSets, TLC

VARIABLES
    dirs,      \* the directories that exist (absolute paths)
    files,     \* the files that exist: absolute path -> content
    cwd,       \* working directory of the running process
    status,    \* "idle", "running", "done" (exit 0) or "raised" (traceback, exit 1)
    exc,       \* the exception that ended the run, "none" otherwise
    pc,        \* index in the program of the next statement
    run,       \* how many runs were started
    fresh,     \* the current run started without real-estate-website
    out,       \* lines printed by the current run
    cmdlog,    \* external commands invoked by the current run
    osname,    \* os.name of the platform
    config,    \* keys present in the configuration file lying beside the script
    edited     \* files the user edited between runs

vars == <<dirs, files, cwd, status, exc, pc, run, fresh, out, cmdlog, osname,
          config, edited>>

\* How many times the script is run in one behaviour.
MaxRuns == 2

-----------------------------------------------------------------------------
(* Names of the script *)

project_dir == "real-estate-website"
client_dir == "client"
server_dir == "server"
ml_service_dir == "ml-service"

\* The required configuration keys the specification lists.
RequiredKeys ==
    {"cloud.aws.access_key", "cloud.firebase.project_id",
     "database.postgres_user", "domains.primary_domain", "ssl.email"}

-----------------------------------------------------------------------------
(* Paths *)

\* os.path.join of components
join(a, b) == a \o b

Parent(p) == SubSeq(p, 1, Len(p) - 1)

IsPrefix(s, t) == Len(s) <= Len(t) /\ SubSeq(t, 1, Len(s)) = s

\* every non-empty prefix of p, p included
Prefixes(p) == {SubSeq(p, 1, n) : n \in 1..Len(p)}

\* The absolute path a relative path names from directory d: ".." goes to the
\* parent (the launch directory's parents are not modelled and stay <<>>).
RECURSIVE Resolve(_, _)
Resolve(d, rel) ==
    IF rel = <<>> THEN d
    ELSE IF Head(rel) = ".."
         THEN Resolve(IF d = <<>> THEN <<>> ELSE Parent(d), Tail(rel))
         ELSE Resolve(Append(d, Head(rel)), Tail(rel))

-----------------------------------------------------------------------------
(* The statements of the script *)

Stmt(op, line) ==
    [op |-> op, line |-> line, path |-> <<>>, content |-> <<>>,
     exist_ok |-> FALSE, cmd |-> "", ok |-> "", err |-> "", lines |-> <<>>]

\* print(...): the printed line, as the pieces it is formatted from
PrintStmt(line, msg) == [Stmt("print", line) EXCEPT !.lines = <<msg>>]

\* consecutive print(...) statements, starting at line
PrintBlock(line, msgs) == [Stmt("print", line) EXCEPT !.lines = msgs]

\* os.makedirs(path): exist_ok left at its default, False
MkdirStmtNoExistOk(line, path) ==
    [Stmt("makedirs", line) EXCEPT !.path = path, !.exist_ok = FALSE]

\* os.makedirs(path, exist_ok=True)
MkdirStmt(line, path) ==
    [Stmt("makedirs", line) EXCEPT !.path = path, !.exist_ok = TRUE]

\* os.chdir(path)
ChdirStmt(line, path) == [Stmt("chdir", line) EXCEPT !.path = path]

\* create_file(path, content)
FileStmt(line, path, content) ==
    [Stmt("create_file", line) EXCEPT !.path = path, !.content = content]

\* run_command(command, success_message, error_message)
CmdStmt(line, cmd, ok, err) ==
    [Stmt("run_command", line) EXCEPT !.cmd = cmd, !.ok = ok, !.err = err]

\* Lines 16-51: the directory tree
DirStmts ==
    << PrintStmt(16, <<"[INFO] Creating the main project directory...">>),
       MkdirStmt(18, <<project_dir>>),
       ChdirStmt(19, <<project_dir>>),
       PrintStmt(20, <<"[SUCCESS] Created and navigated to the project directory: ", project_dir>>),
       PrintStmt(22, <<"[INFO] Creating the client directory and its subdirectories...">>),
       MkdirStmt(24, <<client_dir>>),
       MkdirStmt(25, join(<<client_dir>>, <<"public">>)),
       MkdirStmt(26, join(<<client_dir>>, <<"src", "components">>)),
       MkdirStmt(27, join(<<client_dir>>, <<"src", "pages">>)),
       MkdirStmt(28, join(<<client_dir>>, <<"src", "services">>)),
       MkdirStmt(29, join(<<client_dir>>, <<"src", "styles">>)),
       MkdirStmt(30, join(<<client_dir>>, <<"src", "feedback">>)),
       PrintStmt(31, <<"[SUCCESS] Created the client directory and its subdirectories: ", client_dir>>),
       PrintStmt(33, <<"[INFO] Creating the server directory and its subdirectories...">>),
       MkdirStmt(35, <<server_dir>>),
       MkdirStmt(36, join(<<server_dir>>, <<"src", "controllers">>)),
       MkdirStmt(37, join(<<server_dir>>, <<"src", "middlewares">>)),
       MkdirStmt(38, join(<<server_dir>>, <<"src", "models">>)),
       MkdirStmt(39, join(<<server_dir>>, <<"src", "routes">>)),
       MkdirStmt(40, join(<<server_dir>>, <<"src", "services">>)),
       MkdirStmt(41, join(<<server_dir>>, <<"src", "database">>)),
       MkdirStmt(42, join(<<server_dir>>, <<"src", "config">>)),
       MkdirStmt(43, join(<<server_dir>>, <<"src", "scripts">>)),
       PrintStmt(44, <<"[SUCCESS] Created the server directory and its subdirectories: ", server_dir>>),
       PrintStmt(46, <<"[INFO] Creating the ml-service directory and its subdirectories...">>),
       MkdirStmt(48, <<ml_service_dir>>),
       MkdirStmt(49, join(<<ml_service_dir>>, <<"src", "models">>)),
       MkdirStmt(50, join(<<ml_service_dir>>, <<"src", "preprocessors">>)),
       PrintStmt(51, <<"[SUCCESS] Created the ml-service directory and its subdirectories: ", ml_service_dir>>) >>

\* Lines 53-65: the empty files (content defaults to "")
EmptyFileStmts ==
    << PrintStmt(53, <<"[INFO] Creating empty files...">>),
       FileStmt(54, <<".gitignore">>, <<>>),
       FileStmt(55, <<"README.md">>, <<>>),
       FileStmt(56, <<"docker-compose.yml">>, <<>>),
       FileStmt(57, join(<<client_dir>>, <<"tailwind.config.js">>), <<>>),
       FileStmt(58, join(<<client_dir>>, <<"tsconfig.json">>), <<>>),
       FileStmt(59, join(<<client_dir>>, <<"package.json">>), <<>>),
       FileStmt(60, join(<<server_dir>>, <<".env">>), <<>>),
       FileStmt(61, join(<<server_dir>>, <<"tsconfig.json">>), <<>>),
       FileStmt(62, join(<<server_dir>>, <<"package.json">>), <<>>),
       FileStmt(63, join(<<ml_service_dir>>, <<"Dockerfile">>), <<>>),
       FileStmt(64, join(<<ml_service_dir>>, <<"src", "app.py">>), <<>>),
       FileStmt(65, join(<<ml_service_dir>>, <<"src", "requirements.txt">>), <<>>) >>

\* Lines 67-225: the files with literal content.  A multi-line literal is one
\* chunk named after the lines that hold it.
PlaceholderStmts ==
    << PrintStmt(67, <<"[INFO] Creating common pages and components...">>),
       FileStmt(69, join(<<client_dir>>, <<"src", "pages", "Home.tsx">>), <<"// Home page placeholder content">>),
       FileStmt(70, join(<<client_dir>>, <<"src", "pages", "AboutUs.tsx">>), <<"// About Us page placeholder content">>),
       FileStmt(71, join(<<client_dir>>, <<"src", "pages", "Login.tsx">>), <<"// Login page placeholder content">>),
       FileStmt(72, join(<<client_dir>>, <<"src", "pages", "CreateAccount.tsx">>), <<"// Create Account page placeholder content">>),
       FileStmt(73, join(<<client_dir>>, <<"src", "pages", "DeleteAccount.tsx">>), <<"// Delete Account page placeholder content">>),
       FileStmt(76, join(<<client_dir>>, <<"src", "components", "Header.tsx">>), <<"// Header component placeholder content">>),
       FileStmt(77, join(<<client_dir>>, <<"src", "components", "Footer.tsx">>), <<"// Footer component placeholder content">>),
       FileStmt(78, join(<<client_dir>>, <<"src", "components", "PropertyCard.tsx">>), <<"// Property Card component placeholder content">>),
       FileStmt(79, join(<<client_dir>>, <<"src", "components", "SearchBar.tsx">>), <<"// Search Bar component placeholder content">>),
       FileStmt(82, join(<<client_dir>>, <<"src", "feedback", "FeedbackForm.tsx">>), <<"literal of lines 82-113: FeedbackForm component">>),
       FileStmt(116, join(<<server_dir>>, <<"src", "routes", "authRoutes.ts">>), <<"// Authentication routes placeholder content">>),
       FileStmt(117, join(<<server_dir>>, <<"src", "routes", "propertyRoutes.ts">>), <<"// Property routes placeholder content">>),
       FileStmt(120, join(<<server_dir>>, <<"src", "controllers", "authController.ts">>), <<"// Authentication controller placeholder content">>),
       FileStmt(121, join(<<server_dir>>, <<"src", "controllers", "propertyController.ts">>), <<"// Property controller placeholder content">>),
       FileStmt(124, join(<<server_dir>>, <<"src", "models", "userModel.ts">>), <<"// User model placeholder content">>),
       FileStmt(125, join(<<server_dir>>, <<"src", "models", "propertyModel.ts">>), <<"// Property model placeholder content">>),
       FileStmt(128, join(<<server_dir>>, <<"src", "database", "prisma", "schema.prisma">>), <<"literal of lines 128-146: prisma schema">>),
       FileStmt(148, join(<<server_dir>>, <<"src", "scripts", "setup-database.ts">>), <<"literal of lines 148-168: setupDatabase">>),
       FileStmt(171, join(<<server_dir>>, <<"src", "config", "secrets.ts">>), <<"literal of lines 171-182: getSecret">>),
       FileStmt(185, join(<<server_dir>>, <<"src", "scripts", "provision-certificate.ts">>), <<"literal of lines 185-210: provisionCertificate">>),
       PrintStmt(212, <<"[INFO] Creating performance testing and monitoring files...">>),
       FileStmt(214, join(<<"performance-tests">>, <<"load-test.jmx">>), <<"literal of lines 214-225: jmeterTestPlan">>) >>

\* Lines 249-252: the activation command of the platform
ActivateStmt(os) ==
    IF os = "nt"
    THEN CmdStmt(250, "venv\\Scripts\\activate",
                 "Activated the virtual environment", "Failed to activate the virtual environment")
    ELSE CmdStmt(252, "source venv/bin/activate",
                 "Activated the virtual environment", "Failed to activate the virtual environment")

\* Lines 227-257: the external commands
CommandStmts(os) ==
    << PrintStmt(227, <<"[INFO] Initializing a new Node.js project...">>),
       CmdStmt(228, "npm init -y", "Initialized a new Node.js project", "Failed to initialize a new Node.js project"),
       PrintStmt(230, <<"[INFO] Installing backend dependencies...">>),
       CmdStmt(231, "npm install express pg firebase dotenv jsonwebtoken bcrypt prisma aws-sdk",
               "Installed backend dependencies", "Failed to install backend dependencies"),
       PrintStmt(233, <<"[INFO] Creating a new React app with TypeScript...">>),
       ChdirStmt(234, <<client_dir>>),
       CmdStmt(235, "npx create-react-app . --template typescript --use-npm",
               "Created a new React app with TypeScript", "Failed to create a new React app with TypeScript"),
       PrintStmt(237, <<"[INFO] Installing additional frontend dependencies...">>),
       CmdStmt(238, "npm install axios react-router-dom firebase",
               "Installed additional frontend dependencies", "Failed to install additional frontend dependencies"),
       PrintStmt(240, <<"[INFO] Installing Tailwind CSS and its dependencies...">>),
       CmdStmt(241, "npm install -D tailwindcss@latest postcss@latest autoprefixer@latest",
               "Installed Tailwind CSS and its dependencies", "Failed to install Tailwind CSS and its dependencies"),
       CmdStmt(242, "npx tailwindcss init -p",
               "Initialized Tailwind CSS configuration", "Failed to initialize Tailwind CSS configuration"),
       PrintStmt(244, <<"[INFO] Creating a new virtual environment for the ML service...">>),
       ChdirStmt(245, join(<<"..">>, <<ml_service_dir>>)),
       CmdStmt(246, "python -m venv venv",
               "Created a new virtual environment for the ML service", "Failed to create a new virtual environment for the ML service"),
       PrintStmt(248, <<"[INFO] Activating the virtual environment and installing dependencies...">>),
       ActivateStmt(os),
       CmdStmt(253, "pip install flask numpy pandas scikit-learn joblib flask-cors jmeter grafana prometheus",
               "Installed ML service dependencies", "Failed to install ML service dependencies"),
       PrintStmt(255, <<"[INFO] Initializing a new Git repository...">>),
       ChdirStmt(256, join(<<"..">>, <<"..">>)),
       CmdStmt(257, "git init", "Initialized a new Git repository", "Failed to initialize a new Git repository") >>

\* Lines 259-271: the closing messages
ClosingStmts ==
    << PrintStmt(259, <<"[SUCCESS] Project structure and configurations completed.">>),
       PrintBlock(260,
         << <<"[INFO] Next steps:">>,
            <<"1. Update the Dockerfile and docker-compose.yml file for containerization.">>,
            <<"2. Implement the backend API routes, controllers, and models in the 'server' directory.">>,
            <<"3. Implement the frontend pages and components in the 'client' directory.">>,
            <<"4. Implement user authentication and account management using Firebase Authentication.">>,
            <<"5. Integrate the ML service by implementing the Flask API and preprocessing scripts.">>,
            <<"6. Set up the database and configure secrets using the provided scripts and configurations.">>,
            <<"7. Provision SSL/TLS certificates using the provided script.">>,
            <<"8. Integrate performance testing and monitoring using the provided load test script and monitoring tools.">>,
            <<"9. Test and refine the implemented features.">>,
            <<"10. Deploy the application to a hosting platform.">>,
            <<"11. Monitor and iterate based on user feedback and requirements.">> >>) >>

\* The whole script, lines 16-271
Script(os) ==
    DirStmts \o EmptyFileStmts \o PlaceholderStmts \o CommandStmts(os) \o ClosingStmts

PosixScript == Script("posix")
NtScript == Script("nt")

Program == IF osname = "nt" THEN NtScript ELSE PosixScript

\* the statement about to run
Cur == Program[pc]

-----------------------------------------------------------------------------
(* The filesystem calls the script makes *)

\* a component of the path, the path included, is a regular file
ThroughFile(fs, abs) == \E q \in Prefixes(abs) : q \in DOMAIN fs

\* os.makedirs(abs, exist_ok): the directories afterwards and the exception
\* raised, "none" when the call returns.  Missing parents are created.
makedirs(ds, fs, abs, exist_ok) ==
    IF ThroughFile(fs, abs)
    THEN [dirs |-> ds, exc |-> "FileExistsError"]
    ELSE IF abs \in ds
         THEN [dirs |-> ds, exc |-> IF exist_ok THEN "none" ELSE "FileExistsError"]
         ELSE [dirs |-> ds \cup Prefixes(abs), exc |-> "none"]

\* os.chdir(abs): the exception raised, "none" when the call returns
chdir(ds, fs, abs) ==
    IF abs \in ds THEN "none"
    ELSE IF abs \in DOMAIN fs THEN "NotADirectoryError"
    ELSE "FileNotFoundError"

\* open(abs, "w"): the exception raised; open creates the file, never a directory
open(ds, fs, abs) ==
    IF abs \in ds THEN "IsADirectoryError"
    ELSE IF Parent(abs) \in ds THEN "none"
    ELSE IF ThroughFile(fs, Parent(abs)) THEN "NotADirectoryError"
    ELSE "FileNotFoundError"

\* the files after abs was given content c
Put(fs, abs, c) ==
    [q \in DOMAIN fs \cup {abs} |-> IF q = abs THEN c ELSE fs[q]]

\* what a file opened in mode "a" would hold after file.write(content)
WrittenAppend(old, content) == old \o content

\* what a file opened in mode "w" holds after file.write(content): the old
\* content is truncated away
Written(old, content) == content

\* the exit statuses an external command may return
ExitCodes == {0, 1}

-----------------------------------------------------------------------------
(* The functions of the script, lines 4-14 *)

\* run_command without the except clause: CalledProcessError ends the run
run_command_uncaught(command, success_message, error_message) ==
    \E rc \in ExitCodes :
        /\ cmdlog' = Append(cmdlog, [cmd |-> command, cwd |-> cwd, rc |-> rc])
        /\ IF rc = 0
           THEN /\ out' = Append(out, <<"[SUCCESS] ", success_message>>)
                /\ UNCHANGED <<status, exc>>
           ELSE /\ status' = "raised"
                /\ exc' = "CalledProcessError"
                /\ UNCHANGED out

\* run_command that runs a failed command a second time
run_command_retry(command, success_message, error_message) ==
    \E rc \in ExitCodes :
        /\ IF rc = 0
           THEN /\ cmdlog' = Append(cmdlog, [cmd |-> command, cwd |-> cwd, rc |-> rc])
                /\ out' = Append(out, <<"[SUCCESS] ", success_message>>)
           ELSE /\ cmdlog' = cmdlog \o << [cmd |-> command, cwd |-> cwd, rc |-> rc],
                                          [cmd |-> command, cwd |-> cwd, rc |-> rc] >>
                /\ out' = Append(out, <<"[ERROR] ", error_message>>)
        /\ UNCHANGED <<status, exc>>

\* run_command, lines 4-9: subprocess.run(command, check=True, shell=True)
\* runs the command through the shell in the working directory and raises
\* CalledProcessError on a non-zero exit status, which is caught.
run_command(command, success_message, error_message) ==
    \E rc \in ExitCodes :
        /\ cmdlog' = Append(cmdlog, [cmd |-> command, cwd |-> cwd, rc |-> rc])
        /\ IF rc = 0
           THEN out' = Append(out, <<"[SUCCESS] ", success_message>>)
           ELSE out' = Append(out, <<"[ERROR] ", error_message>>)
        /\ UNCHANGED <<status, exc>>

\* create_file opening the file in mode "a"
create_file_append(file_path, content) ==
    LET abs == Resolve(cwd, file_path)
        e == open(dirs, files, abs)
        old == IF abs \in DOMAIN files THEN files[abs] ELSE <<>>
    IN  IF e = "none"
        THEN /\ files' = Put(files, abs, WrittenAppend(old, content))
             /\ out' = Append(out, <<"[SUCCESS] Created file: ">> \o file_path)
             /\ UNCHANGED <<status, exc>>
        ELSE /\ status' = "raised"
             /\ exc' = e
             /\ UNCHANGED <<files, out>>

\* create_file, lines 11-14: open(file_path, "w"), write, print
create_file(file_path, content) ==
    LET abs == Resolve(cwd, file_path)
        e == open(dirs, files, abs)
        old == IF abs \in DOMAIN files THEN files[abs] ELSE <<>>
    IN  IF e = "none"
        THEN /\ files' = Put(files, abs, Written(old, content))
             /\ out' = Append(out, <<"[SUCCESS] Created file: ">> \o file_path)
             /\ UNCHANGED <<status, exc>>
        ELSE /\ status' = "raised"
             /\ exc' = e
             /\ UNCHANGED <<files, out>>

-----------------------------------------------------------------------------
(* The filesystem the script is launched in *)

\* The two directories the script writes into and never creates
PrismaDir == <<project_dir, server_dir, "src", "database", "prisma">>
PerfDir == <<project_dir, "performance-tests">>

\* The directory trees the launch directory may hold before the first run
InitialTrees ==
    { {<<>>},
      {<<>>} \cup Prefixes(PrismaDir),
      {<<>>} \cup Prefixes(PerfDir),
      {<<>>} \cup Prefixes(PrismaDir) \cup Prefixes(PerfDir) }

\* The configuration files: complete, or with one required key missing
ConfigFiles == {RequiredKeys} \cup {RequiredKeys \ {k} : k \in RequiredKeys}

\* The files the closing messages ask the user to work on, and what an edit
\* leaves in them
EditableFiles ==
    { <<project_dir, "docker-compose.yml">>,
      <<project_dir, client_dir, "src", "pages", "Home.tsx">> }
UserContent == <<"content written by the user">>

-----------------------------------------------------------------------------
(* Behaviour *)

\* the state before the first run, the configuration file being one of cfgs
InitWith(cfgs) ==
    /\ dirs \in InitialTrees
    /\ files = [q \in {} |-> <<>>]
    /\ cwd = <<>>
    /\ status = "idle"
    /\ exc = "none"
    /\ pc = 1
    /\ run = 0
    /\ fresh = FALSE
    /\ out = <<>>
    /\ cmdlog = <<>>
    /\ osname \in {"posix", "nt"}
    /\ config \in cfgs
    /\ edited = {}

\* a complete configuration file lies beside the script
Init == InitWith({RequiredKeys})

\* any of the configuration files lies beside the script
InitAnyConfig == InitWith(ConfigFiles)

Running == status = "running" /\ pc <= Len(Program)

\* python frame.py: a new process in the launch directory
StartRun ==
    /\ status # "running"
    /\ run < MaxRuns
    /\ run' = run + 1
    /\ status' = "running"
    /\ exc' = "none"
    /\ pc' = 1
    /\ cwd' = <<>>
    /\ out' = <<>>
    /\ cmdlog' = <<>>
    /\ fresh' = (<<project_dir>> \notin dirs)
    /\ UNCHANGED <<dirs, files, osname, config, edited>>

\* control after a statement: the next one, or none when it raised
Advance == pc' = IF status' = "running" THEN pc + 1 ELSE pc

PrintStep ==
    /\ Running
    /\ Cur.op = "print"
    /\ out' = out \o Cur.lines
    /\ pc' = pc + 1
    /\ UNCHANGED <<dirs, files, cwd, status, exc, run, fresh, cmdlog, osname, config, edited>>

MakedirsStep ==
    /\ Running
    /\ Cur.op = "makedirs"
    /\ LET r == makedirs(dirs, files, Resolve(cwd, Cur.path), Cur.exist_ok)
       IN  /\ dirs' = r.dirs
           /\ exc' = r.exc
           /\ status' = IF r.exc = "none" THEN "running" ELSE "raised"
    /\ Advance
    /\ UNCHANGED <<files, cwd, run, fresh, out, cmdlog, osname, config, edited>>

ChdirStep ==
    /\ Running
    /\ Cur.op = "chdir"
    /\ LET abs == Resolve(cwd, Cur.path)
           e == chdir(dirs, files, abs)
       IN  /\ cwd' = IF e = "none" THEN abs ELSE cwd
           /\ exc' = e
           /\ status' = IF e = "none" THEN "running" ELSE "raised"
    /\ Advance
    /\ UNCHANGED <<dirs, files, run, fresh, out, cmdlog, osname, config, edited>>

CreateFileStep ==
    /\ Running
    /\ Cur.op = "create_file"
    /\ create_file(Cur.path, Cur.content)
    /\ Advance
    /\ UNCHANGED <<dirs, cwd, run, fresh, cmdlog, osname, config, edited>>

RunCommandStep ==
    /\ Running
    /\ Cur.op = "run_command"
    /\ run_command(Cur.cmd, Cur.ok, Cur.err)
    /\ Advance
    /\ UNCHANGED <<dirs, files, cwd, run, fresh, osname, config, edited>>

\* the end of the script: the process exits with status 0
Exit ==
    /\ status = "running"
    /\ pc = Len(Program) + 1
    /\ status' = "done"
    /\ UNCHANGED <<dirs, files, cwd, exc, pc, run, fresh, out, cmdlog, osname, config, edited>>

\* between two runs the user edits a generated file, as the closing messages ask
UserEdit ==
    /\ status \in {"done", "raised"}
    /\ run < MaxRuns
    /\ \E f \in EditableFiles \cap DOMAIN files :
          /\ files[f] # UserContent
          /\ files' = Put(files, f, UserContent)
          /\ edited' = edited \cup {f}
    /\ UNCHANGED <<dirs, cwd, status, exc, pc, run, fresh, out, cmdlog, osname, config>>

Next ==
    \/ StartRun
    \/ PrintStep
    \/ MakedirsStep
    \/ ChdirStep
    \/ CreateFileStep
    \/ RunCommandStep
    \/ Exit
    \/ UserEdit

Spec == Init /\ [][Next]_vars

SpecAnyConfig == InitAnyConfig /\ [][Next]_vars

-----------------------------------------------------------------------------
(* Vocabulary of the properties *)

\* position in the script of the statement at a source line
IndexOfLine(line) == CHOOSE i \in DOMAIN Program : Program[i].line = line

\* statement i of the current run has returned
Returned(i) == status # "idle" /\ i < pc

\* where the statement at index i is expected to put its file
ExpectedPath(i) == <<project_dir>> \o Program[i].path

FileIndexes == {i \in DOMAIN Program : Program[i].op = "create_file"}

ComposeFile == <<project_dir, "docker-compose.yml">>
HomePage == <<project_dir, client_dir, "src", "pages", "Home.tsx">>

ContentOf(f) == IF f \in DOMAIN files THEN files[f] ELSE <<>>

MissingKey == config # RequiredKeys

LastCommand == cmdlog[Len(cmdlog)]

-----------------------------------------------------------------------------
(* C1 *)

\* C1: when a run started without real-estate-website has ended, every file
\* named in a create_file call exists at its path under real-estate-website
\* and holds the literal content of the call.
C1_FilesExistAfterFreshRun ==
    (fresh /\ status \in {"done", "raised"} /\ edited = {}) =>
        \A i \in FileIndexes :
            /\ ExpectedPath(i) \in DOMAIN files
            /\ files[ExpectedPath(i)] = Program[i].content

(* C2 *)

\* C2: a run started without real-estate-website never ends by raising,
\* whatever the external commands return.
C2_FreshRunDoesNotRaise == fresh => status # "raised"

(* C3 *)

\* C3: with a configuration file that misses a required key, no directory is
\* created, no file is written, no external command is invoked and the run
\* does not complete.
C3_MissingKeyNoSideEffects ==
    MissingKey =>
        /\ dirs \in InitialTrees
        /\ DOMAIN files = {}
        /\ cmdlog = <<>>
        /\ status # "done"

(* C4 *)

\* C4: no os.makedirs call raises, each leaves exactly the directories there
\* were plus the path and its parents, and in a re-run each leaves the set of
\* directories as the previous run left it.
C4_MakedirsIdempotent ==
    [][ (Running /\ Cur.op = "makedirs") =>
            /\ status' = "running"
            /\ dirs' = dirs \cup Prefixes(Resolve(cwd, Cur.path))
            /\ (run >= 2 => dirs' = dirs) ]_vars

\* a re-run has gone through all its os.makedirs calls
C4_Witness ==
    /\ run >= 2
    /\ status = "running"
    /\ pc = IndexOfLine(51)

(* C5 *)

C6_FailureLoggedNonFatal ==
    [][ (Running /\ Cur.op = "run_command") =>
            /\ Len(cmdlog') = Len(cmdlog) + 1
            /\ LastCommand'.cmd = Cur.cmd
            /\ out' = Append(out, IF LastCommand'.rc = 0
                                  THEN <<"[SUCCESS] ", Cur.ok>>
                                  ELSE <<"[ERROR] ", Cur.err>>)
            /\ status' = "running"
            /\ exc' = "none"
            /\ pc' = pc + 1 ]_vars

\* a run that completed although a command failed, the failure logged
C6_Witness ==
    /\ status = "done"
    /\ \E i \in DOMAIN cmdlog : cmdlog[i].rc # 0
    /\ \E j \in DOMAIN out : out[j][1] = "[ERROR] "

(* C7 *)

\* the order of the external commands
C7_Order ==
    << "npm init -y",
       "npm install express pg firebase dotenv jsonwebtoken bcrypt prisma aws-sdk",
       "npx create-react-app . --template typescript --use-npm",
       "npm install axios react-router-dom firebase",
       "npm install -D tailwindcss@latest postcss@latest autoprefixer@latest",
       "npx tailwindcss init -p",
       "python -m venv venv",
       IF osname = "nt" THEN "venv\\Scripts\\activate" ELSE "source venv/bin/activate",
       "pip install flask numpy pandas scikit-learn joblib flask-cors jmeter grafana prometheus",
       "git init" >>

\* C7: the commands invoked so far are the first ones of the fixed order, each
\* once; a run that reached the command phase does not raise and has invoked
\* all of them when it completes; and no step of a run removes a directory or
\* a file.
C7_SequentialNoRetryNoRollback ==
    /\ [](/\ Len(cmdlog) <= Len(C7_Order)
          /\ \A i \in DOMAIN cmdlog : cmdlog[i].cmd = C7_Order[i]
          /\ (status # "idle" /\ pc >= IndexOfLine(227)) => status # "raised"
          /\ status = "done" => Len(cmdlog) = Len(C7_Order))
    /\ [][ status = "running" =>
              /\ dirs \subseteq dirs'
              /\ DOMAIN files \subseteq DOMAIN files' ]_vars

\* a run that invoked every command although the first ones failed
C7_Witness ==
    /\ status = "done"
    /\ Len(cmdlog) = Len(C7_Order)
    /\ cmdlog[1].rc # 0
    /\ cmdlog[2].rc # 0
    /\ cmdlog[Len(cmdlog)].rc = 0

(* C8 *)

\* C8: in a run started without real-estate-website, the parent directory of
\* the file a create_file call is about to write exists.
C8_ParentDirectoryCreated ==
    (fresh /\ Running /\ Cur.op = "create_file") =>
        Parent(Resolve(cwd, Cur.path)) \in dirs

(* C9 *)

\* the directory each command is to run in
C9_Directory(cmd) ==
    IF cmd \in {C7_Order[1], C7_Order[2], "git init"} THEN <<project_dir>>
    ELSE IF cmd \in {C7_Order[3], C7_Order[4], C7_Order[5], C7_Order[6]}
         THEN <<project_dir, client_dir>>
         ELSE <<project_dir, ml_service_dir>>

\* C9: every external command runs in its directory of the project tree, git
\* init in real-estate-website.
C9_CommandsRunInsideProject ==
    \A i \in DOMAIN cmdlog : cmdlog[i].cwd = C9_Directory(cmdlog[i].cmd)

(* C10 *)

\* C10: while a run lasts, every file whose create_file call has returned
\* holds the literal content of the call, whatever it held before the run.
C10_CreateFileOverwrites ==
    status = "running" =>
        \A i \in FileIndexes :
            Returned(i) =>
                /\ ExpectedPath(i) \in DOMAIN files
                /\ files[ExpectedPath(i)] = Program[i].content

\* a re-run has rewritten a page the user had edited
C10_Witness ==
    /\ run >= 2
    /\ status = "running"
    /\ HomePage \in edited
    /\ Returned(IndexOfLine(69))
    /\ files[HomePage] = <<"// Home page placeholder content">>

=============================================================================
